---- MODULE Spec2Model ----
(***************************************************************************)
(* The sidecar metadata cache of far_gen.py: generate_file_meta (the       *)
(* staleness decision and the artifact writer), generate_dir_meta (the     *)
(* directory rollup) and the tree walk of main with its orphan sweep.      *)
(*                                                                         *)
(* Text is a sequence of tokens.  A token is one character ("1", ".",      *)
(* "\n") or one fixed piece of text that the files of the model never      *)
(* split ("size: ", "far_gen_v", "text/plain").  Python's substring test,  *)
(* replace, splitlines and split are computed on these sequences as        *)
(* Python computes them on characters.                                     *)
(***************************************************************************)
EXTENDS Integers, Sequences, FiniteSets, TLC

(***************************************************************************)
(* Bounds of the model.                                                    *)
(***************************************************************************)
\* runs of the program in one behaviour (each run reads the clock once)
MaxRuns == 3

(***************************************************************************)
(* Python string operations on token sequences.                            *)
(***************************************************************************)
NL == "\n"

\* needle occurs in hay at position i
OccursAt(hay, needle, i) ==
    /\ i + Len(needle) - 1 <= Len(hay)
    /\ \A k \in 1..Len(needle) : hay[i + k - 1] = needle[k]

\* Python: needle in hay
Contains(hay, needle) ==
    \E i \in 1..(Len(hay) - Len(needle) + 1) : OccursAt(hay, needle, i)

RECURSIVE ReplaceFrom(_, _, _, _)
ReplaceFrom(s, old, new, i) ==
    IF i > Len(s) THEN <<>>
    ELSE IF OccursAt(s, old, i) THEN new \o ReplaceFrom(s, old, new, i + Len(old))
    ELSE <<s[i]>> \o ReplaceFrom(s, old, new, i + 1)

\* Python: s.replace(old, new), every non-overlapping occurrence, left to right
Replace(s, old, new) == IF old = <<>> THEN s ELSE ReplaceFrom(s, old, new, 1)

\* the positions of the line ends of s
LineEnds(s) == {i \in 1..Len(s) : s[i] = NL}

\* Python: s.splitlines()
SplitLines(s) ==
    LET ends == LineEnds(s)
        n == Cardinality(ends) + (IF s # <<>> /\ s[Len(s)] # NL THEN 1 ELSE 0)
        EndOf(k) == IF k > Cardinality(ends) THEN Len(s) + 1
                    ELSE CHOOSE i \in ends : Cardinality({j \in ends : j < i}) = k - 1
    IN [k \in 1..n |-> SubSeq(s, IF k = 1 THEN 1 ELSE EndOf(k - 1) + 1, EndOf(k) - 1)]

\* the whitespace tokens
WHITESPACE == {" ", "  ", NL}

RECURSIVE LStrip(_)
LStrip(s) == IF s # <<>> /\ Head(s) \in WHITESPACE THEN LStrip(Tail(s)) ELSE s

RECURSIVE RStrip(_)
RStrip(s) ==
    IF s # <<>> /\ s[Len(s)] \in WHITESPACE THEN RStrip(SubSeq(s, 1, Len(s) - 1)) ELSE s

\* Python: s.strip()
Strip(s) == RStrip(LStrip(s))

\* Python: s.startswith(prefix)
StartsWith(s, prefix) == OccursAt(s, prefix, 1)

DIGITS == <<"0", "1", "2", "3", "4", "5", "6", "7", "8", "9">>

RECURSIVE Str(_)
\* Python: str(n) of a non-negative integer
Str(n) == IF n < 10 THEN <<DIGITS[n + 1]>> ELSE Str(n \div 10) \o <<DIGITS[(n % 10) + 1]>>

\* Python: repr of the float st_mtime; the model counts time in 1/100 s, so
\* 100 is 1.0, 120 is 1.2 and 125 is 1.25
FloatRepr(m) ==
    Str(m \div 100) \o <<".">> \o
        (IF m % 10 = 0 THEN <<DIGITS[((m % 100) \div 10) + 1]>>
         ELSE <<DIGITS[((m % 100) \div 10) + 1], DIGITS[(m % 10) + 1]>>)

\* the length in characters of a token
TokLen(t) ==
    CASE t = "  " -> 2
      [] t = "sha256: " -> 8
      [] t = "mtime: " -> 7
      [] t = "size: " -> 6
      [] t = "pipeline: " -> 10
      [] t = "far_gen_v" -> 9
      [] t \in {"hA", "hB", "hM", "hS", "hP"} -> 64
      [] OTHER -> 1

RECURSIVE CharLen(_)
\* the length in characters (and bytes: the texts are ASCII) of a text
CharLen(s) == IF s = <<>> THEN 0 ELSE TokLen(Head(s)) + CharLen(Tail(s))

(***************************************************************************)
(* Names and paths.  A file name is a sequence of tokens: a stem and then  *)
(* its extensions, <<"a", ".txt", ".meta">> for a.txt.meta.  A relative    *)
(* path joins the directory and the name with the token "/".              *)
(***************************************************************************)
\* the tokens that begin with a dot
DOT_TOKENS == {".txt", ".meta", ".dir", ".bin", ".pdf", ".csv"}

\* Python: file.endswith('.meta')
EndsWithMeta(name) == name # <<>> /\ name[Len(name)] = ".meta"

\* Python: file.startswith('.')
StartsWithDot(name) == name # <<>> /\ name[1] \in DOT_TOKENS

\* Python: file[:-5] of a name that ends with '.meta'
StripMeta(name) == SubSeq(name, 1, Len(name) - 1)

\* pathlib: file_path.suffix.lower() (a name that is only a dotted token has none)
Suffix(name) == IF Len(name) >= 2 /\ name[Len(name)] \in DOT_TOKENS THEN name[Len(name)] ELSE ""

\* pathlib: file_path.with_suffix(file_path.suffix + ".meta")
MetaName(name) == name \o <<".meta">>

DIR_META == <<".dir", ".meta">>

\* os.path.relpath(path, root_dir) of a directory and of a file in it
DirRel(d) == IF d = "root" THEN <<".">> ELSE <<d>>
FileRel(d, name) == IF d = "root" THEN name ELSE <<d, "/">> \o name

(***************************************************************************)
(* The ignore matcher.                                                     *)
(***************************************************************************)
RECURSIVE fnmatch(_, _)
\* fnmatch.fnmatch(s, pat): "*" matches any run of characters, "/" included
fnmatch(s, pat) ==
    IF pat = <<>> THEN s = <<>>
    ELSE IF Head(pat) = "*"
         THEN fnmatch(s, Tail(pat)) \/ (s # <<>> /\ fnmatch(Tail(s), pat))
         ELSE s # <<>> /\ Head(s) = Head(pat) /\ fnmatch(Tail(s), Tail(pat))

RECURSIVE SplitSlashFrom(_, _, _)
SplitSlashFrom(s, i, cur) ==
    IF i > Len(s) THEN <<cur>>
    ELSE IF s[i] = "/" THEN <<cur>> \o SplitSlashFrom(s, i + 1, <<>>)
    ELSE SplitSlashFrom(s, i + 1, Append(cur, s[i]))

\* Python: rel_path.split('/')
SplitSlash(s) == SplitSlashFrom(s, 1, <<>>)

RECURSIVE RStripSlash(_)
\* Python: pattern.rstrip('/')
RStripSlash(p) ==
    IF p # <<>> /\ p[Len(p)] = "/" THEN RStripSlash(SubSeq(p, 1, Len(p) - 1)) ELSE p

\* load_farignore: the built-in patterns, then the lines of .farignore
BUILTIN_PATTERNS == << <<".git">>, <<".meta">>, <<".DS_Store">>, <<"node_modules">> >>
load_farignore(lines) == BUILTIN_PATTERNS \o lines

\* lines 744-760 without the glob tests: only a path component equal to the pattern
should_ignore_exact(rel_path, ignore_patterns) ==
    LET parts == SplitSlash(rel_path)
    IN \E j \in 1..Len(ignore_patterns) :
          \E k \in 1..Len(parts) : parts[k] = RStripSlash(ignore_patterns[j])

should_ignore(rel_path, ignore_patterns) ==
    LET parts == SplitSlash(rel_path)
    IN \E j \in 1..Len(ignore_patterns) :
          LET pattern == ignore_patterns[j]
              p == RStripSlash(pattern)
          IN \/ \E k \in 1..Len(parts) : parts[k] = p
             \/ fnmatch(rel_path, pattern)
             \/ fnmatch(rel_path, p \o <<"/", "*">>)
             \/ \E k \in 1..Len(parts) : fnmatch(parts[k], p)

(***************************************************************************)
(* Files.  mode "rw" is an ordinary file, "ro" can be read but not         *)
(* written, "none" can be neither read nor written.  mtime is in 1/100 s;  *)
(* the mtime of an artifact file is never read and is kept 0.              *)
(***************************************************************************)
Absent == [kind |-> "absent", text |-> <<>>, mtime |-> 0, mode |-> "rw"]
File(text, mtime, mode) == [kind |-> "file", text |-> text, mtime |-> mtime, mode |-> mode]

\* the texts a source file of the model may hold
TextA == <<"a">>
TextB == <<"b">>
\* a line that reads like the header line of an artifact recorded at mtime 1.2
TextM == <<"  ", "mtime: ", "1", ".", "2">>
\* a checksum note that holds the digest of TextA
TextS == <<"sha256: ", "hA">>
\* a note that names the pipeline far_gen_v12
TextP == <<"pipeline: ", "far_gen_v", "1", "2">>

\* hashlib.sha256(...).hexdigest(): 64 hex characters, one token here; distinct
\* texts have distinct digests
Digest(text) ==
    CASE text = TextA -> "hA"
      [] text = TextB -> "hB"
      [] text = TextM -> "hM"
      [] text = TextS -> "hS"
      [] text = TextP -> "hP"
      [] OTHER -> "hX"

None == "None"

\* the content of a file whose bytes are not UTF-8
UNDECODABLE == <<"\\xff">>

\* get_sha256(filepath): None when the file cannot be opened
get_sha256(f) == IF f.kind # "file" \/ f.mode = "none" THEN None ELSE Digest(f.text)

\* get_mime_type(filepath), by the extension
get_mime_type(name) ==
    CASE Suffix(name) = ".txt" -> "text/plain"
      [] Suffix(name) = ".csv" -> "text/csv"
      [] Suffix(name) = ".pdf" -> "application/pdf"
      [] OTHER -> "application/octet-stream"

\* the running pipeline revision, and the one artifacts of an earlier
\* revision record (the tests write far_gen_v0)
PIPELINE_ID == <<"far_gen_v", "1", "2">>
OLD_PIPELINE_ID == <<"far_gen_v", "0">>

(***************************************************************************)
(* The artifact format and the three decisions of generate_file_meta.      *)
(***************************************************************************)
\* the text written at lines 881-895
meta_content(current_hash, mime_type, current_size, current_mtime, pid, timestamp, layout_yaml, name, extracted_text) ==
    <<"--far_version: 1", NL, "source:", NL>>
    \o <<"  ", "sha256: ", current_hash, NL>>
    \o <<"  ", "mime: ", mime_type, NL>>
    \o <<"  ", "size: ">> \o Str(current_size) \o <<NL>>
    \o <<"  ", "mtime: ">> \o FloatRepr(current_mtime) \o <<NL>>
    \o <<"extract:", NL>>
    \o <<"  ", "pipeline: ">> \o pid \o <<NL>>
    \o <<"  ", "extracted_at: ">> \o timestamp \o <<NL>>
    \o <<"  ", "deterministic: true", NL>>
    \o layout_yaml
    \o <<"---", NL>>
    \o <<"# ">> \o name \o <<NL>>
    \o <<NL>>
    \o extracted_text \o <<NL>>

\* datetime.now(timezone.utc).isoformat() at clock reading now
IsoFormat(now) == <<"T">> \o Str(now)

\* lines 784-786: the fast check, three substring tests on the artifact text
FastCheck(content, current_mtime, current_size, pid) ==
    /\ Contains(content, <<"mtime: ">> \o FloatRepr(current_mtime))
    /\ Contains(content, <<"size: ">> \o Str(current_size))
    /\ Contains(content, <<"pipeline: ">> \o pid)

\* lines 802-803 looking for the hash under another key
SlowCheckWrongKey(content, current_hash, pid) ==
    /\ Contains(content, <<"sha1: ", current_hash>>)
    /\ Contains(content, <<"pipeline: ">> \o pid)

\* lines 802-803: the slow check, two substring tests on the artifact text
SlowCheck(content, current_hash, pid) ==
    /\ Contains(content, <<"sha256: ", current_hash>>)
    /\ Contains(content, <<"pipeline: ">> \o pid)

\* line 806: the lines l of the artifact with l.strip().startswith('mtime:')
MtimeLines(content) ==
    SelectSeq(SplitLines(content), LAMBDA l : StartsWith(Strip(l), <<"mtime: ">>))

\* lines 805-808: every occurrence of the first mtime line is replaced
TouchMtime(content, current_mtime) ==
    Replace(content, MtimeLines(content)[1], <<"  ", "mtime: ">> \o FloatRepr(current_mtime))

\* the mime types with mime_type.startswith('text/')
TEXT_MIMES == {"text/plain", "text/csv"}

\* open(filepath) succeeds
Readable(f) == f.kind = "file" /\ f.mode # "none"

\* lines 198-228: extract_pdf runs pdftotext and catches FileNotFoundError alone.
\* tool is how the external program behaves: "ok", "missing" (not installed),
\* "failed" (non-zero exit status), "garbled" (output that is not UTF-8, which
\* subprocess.run(text=True) answers with UnicodeDecodeError)
extract_pdf(f, tool) ==
    IF tool = "missing"
    THEN [raised |-> FALSE, text |-> <<"[Error: pdftotext not installed]">>]
    ELSE IF tool = "garbled"
    THEN [raised |-> TRUE, text |-> <<>>]
    ELSE IF tool = "failed" \/ ~Readable(f)
    THEN [raised |-> FALSE, text |-> <<"[Error: ", "stderr", "]">>]
    ELSE [raised |-> FALSE, text |-> f.text]

\* lines 826-832: the page count of pdfinfo, when it can be had
pdf_layout(f, tool) ==
    IF tool = "ok" /\ Readable(f) THEN <<"layout:", NL, "  ", "pages: ", "1", NL>> ELSE <<>>

RECURSIVE JoinRange(_, _, _, _)
\* Python: sep.join(parts[lo-1:hi]), by halves
JoinRange(parts, sep, lo, hi) ==
    IF lo > hi THEN <<>>
    ELSE IF lo = hi THEN parts[lo]
    ELSE LET mid == (lo + hi) \div 2
         IN JoinRange(parts, sep, lo, mid) \o sep \o JoinRange(parts, sep, mid + 1, hi)

\* Python: sep.join(parts)
Join(parts, sep) == JoinRange(parts, sep, 1, Len(parts))

\* csv.reader on one line without quotes: the cells between the commas, and no
\* cell at all for an empty line
SplitCells(line) ==
    IF line = <<>> THEN <<>>
    ELSE LET commas == {i \in 1..Len(line) : line[i] = ","}
             n == Cardinality(commas) + 1
             EndOf(k) == IF k > Cardinality(commas) THEN Len(line) + 1
                         ELSE CHOOSE i \in commas : Cardinality({j \in commas : j < i}) = k - 1
         IN [k \in 1..n |-> SubSeq(line, IF k = 1 THEN 1 ELSE EndOf(k - 1) + 1, EndOf(k) - 1)]

\* lines 418-419: rows = list(csv.reader(f))
csv_rows(text) ==
    LET lines == SplitLines(text)
    IN [k \in 1..Len(lines) |-> SplitCells(lines[k])]

\* line 425: the slice rows[1:101] keeps this many data rows
CSV_ROW_CAP == 100

\* lines 421 and 426: "| " + " | ".join(cells) + " |"
TableLine(cells) == <<"| ">> \o Join(cells, <<" | ">>) \o <<" |">>

\* line 427 with the header row counted as a data row
ShowsTrailerOffByOne(rows) == Len(rows) > CSV_ROW_CAP

\* line 427: if len(rows) > 101
ShowsTrailer(rows) == Len(rows) > CSV_ROW_CAP + 1

\* lines 419-429: the rendered table
csv_table(rows) ==
    IF rows = <<>> THEN <<"(Empty CSV)">>
    ELSE LET header == rows[1]
             shown == IF Len(rows) - 1 < CSV_ROW_CAP THEN Len(rows) - 1 ELSE CSV_ROW_CAP
             lines == << TableLine(header),
                         TableLine([k \in 1..Len(header) |-> <<"---">>]) >>
                      \o [k \in 1..shown |-> TableLine(rows[k + 1])]
                      \o (IF ShowsTrailer(rows)
                          THEN << <<NL, "*(">> \o Str(Len(rows) - 1)
                                  \o <<" rows total, showing first 100)*">> >>
                          ELSE <<>>)
         IN Join(lines, <<NL>>)

\* lines 414-431: extract_csv, every exception caught
extract_csv(f) ==
    IF Readable(f)
    THEN csv_table(csv_rows(f.text))
    ELSE <<"[Error extracting CSV: ", "e", "]">>

\* lines 864-870: the text branch and the binary branch of the dispatch
extract_text(name, f, mime_type) ==
    IF mime_type \in TEXT_MIMES \/ Suffix(name) \in {".txt", ".meta"}
    THEN (IF Readable(f) THEN f.text ELSE <<"[Read Error]">>)
    ELSE <<"[Binary: ", mime_type, "]">>

\* lines 823-870: the dispatch, for the extensions of the model
extract(name, f, mime_type, tool) ==
    CASE Suffix(name) = ".pdf" ->
            [raised |-> extract_pdf(f, tool).raised, text |-> extract_pdf(f, tool).text,
             layout |-> pdf_layout(f, tool)]
      [] Suffix(name) = ".csv" ->
            [raised |-> FALSE, text |-> extract_csv(f), layout |-> <<>>]
      [] OTHER ->
            [raised |-> FALSE, text |-> extract_text(name, f, mime_type), layout |-> <<>>]

\* what one call did: the directory after it, whether it returned meta_path,
\* whether an exception left it, and the work it performed
Outcome(dirfs, path, ret, raised, hashed, extracted, wrote) ==
    [fs |-> dirfs, path |-> path, ret |-> ret, raised |-> raised,
     hashed |-> hashed, extracted |-> extracted, wrote |-> wrote]

\* open(meta_path, 'r').read() succeeds
CanRead(f) == f.kind = "file" /\ f.mode \in {"rw", "ro"} /\ f.text # UNDECODABLE

\* open(meta_path, 'w') succeeds
CanWrite(f) == f.kind = "absent" \/ (f.kind = "file" /\ f.mode = "rw")

\* lines 780 and 798 without the force flag
UseCacheForced(force, art) == art.kind # "absent"

\* lines 780 and 798: not force and meta_path.exists()
UseCache(force, art) == ~force /\ art.kind # "absent"

\* the end of the header in an artifact text: the "---" line and its newline
HeaderEnd(content) ==
    LET at == {i \in 1..(Len(content) - 1) : content[i] = "---" /\ content[i + 1] = NL}
    IN IF at = {} THEN Len(content) ELSE 1 + CHOOSE i \in at : \A j \in at : i <= j

\* lines 809-810 and 896-897: open(meta_path, 'w') empties the file and write
\* fills it; a process that is stopped in between leaves a prefix of the text:
\* nothing ("empty"), or the text up to the end of the header ("header")
Written(content, cut) ==
    CASE cut = "whole" -> content
      [] cut = "empty" -> <<>>
      [] OTHER -> SubSeq(content, 1, HeaderEnd(content))

\* what a call meets: the source file when it is stat'ed, when it is hashed
\* and when it is extracted, the behaviour of the external tool, and how far
\* the write of the artifact gets
World(at_stat, at_hash, at_read, tool, cut) ==
    [stat |-> at_stat, hash |-> at_hash, read |-> at_read, tool |-> tool, cut |-> cut]

\* nothing changes and nothing fails during the call
Calm(f) == World(f, f, f, "ok", "whole")

\* generate_file_meta, lines 764-900, in a given world
generate_file_meta_in(dirfs, rel_path, name, ignore_patterns, pid, force, now, world) ==
    LET meta_path == MetaName(name)
        src == world.stat
        art == dirfs[meta_path]
        current_mtime == src.mtime
        current_size == CharLen(src.text)
        fast == /\ UseCache(force, art)
                /\ CanRead(art)
                /\ FastCheck(art.text, current_mtime, current_size, pid)
        current_hash == get_sha256(world.hash)
        slow == /\ UseCache(force, art)
                /\ CanRead(art)
                /\ SlowCheck(art.text, current_hash, pid)
                /\ MtimeLines(art.text) # <<>>
                /\ CanWrite(art)
        mime_type == get_mime_type(name)
        ex == extract(name, world.read, mime_type, world.tool)
        written == meta_content(current_hash, mime_type, current_size, current_mtime,
                                pid, IsoFormat(now), ex.layout, name, ex.text)
    IN  IF should_ignore(rel_path, ignore_patterns)
        THEN Outcome(dirfs, "ignored", FALSE, FALSE, FALSE, FALSE, FALSE)
        ELSE IF src.kind = "absent"
        THEN Outcome(dirfs, "nofile", FALSE, FALSE, FALSE, FALSE, FALSE)
        ELSE IF fast
        THEN Outcome(dirfs, "fast", TRUE, FALSE, FALSE, FALSE, FALSE)
        ELSE IF current_hash = None
        THEN Outcome(dirfs, "nohash", FALSE, FALSE, TRUE, FALSE, FALSE)
        ELSE IF slow
        THEN Outcome([dirfs EXCEPT ![meta_path] =
                         File(Written(TouchMtime(art.text, current_mtime), world.cut), 0, "rw")],
                     IF world.cut = "whole" THEN "touch" ELSE "touch_cut",
                     world.cut = "whole", FALSE, TRUE, FALSE, TRUE)
        ELSE IF ex.raised
        THEN Outcome(dirfs, "extract_raise", FALSE, TRUE, TRUE, TRUE, FALSE)
        ELSE IF CanWrite(art)
        THEN Outcome([dirfs EXCEPT ![meta_path] = File(Written(written, world.cut), 0, "rw")],
                     IF world.cut = "whole" THEN "extract" ELSE "extract_cut",
                     world.cut = "whole", FALSE, TRUE, TRUE, TRUE)
        ELSE Outcome(dirfs, "raise", FALSE, TRUE, TRUE, TRUE, FALSE)

\* generate_file_meta(filepath, root_dir, ignore_patterns, force) when the source
\* stays as it is during the call, the tools work and the write completes
generate_file_meta(dirfs, rel_path, name, ignore_patterns, pid, force, now) ==
    generate_file_meta_in(dirfs, rel_path, name, ignore_patterns, pid, force, now,
                          Calm(dirfs[name]))

(***************************************************************************)
(* generate_dir_meta.                                                      *)
(***************************************************************************)
MAX_DIR_SUMMARY_FILES == 50
\* the character budget of a snippet, line 928
SNIPPET_CHARS == 150

\* a file of the directory, Absent for a name the directory does not hold
FileAt(dirfs, name) == IF name \in DOMAIN dirfs THEN dirfs[name] ELSE Absent

\* Python: s.split(sep)[-1] when sep occurs in s
LastPart(s, sep) ==
    LET at == {i \in 1..Len(s) : OccursAt(s, sep, i)}
    IN IF at = {} THEN <<>>
       ELSE LET last == CHOOSE i \in at : \A j \in at : j <= i
            IN SubSeq(s, last + Len(sep), Len(s))

RECURSIVE JoinLines(_)
\* Python: "\n".join(lines)
JoinLines(lines) ==
    IF lines = <<>> THEN <<>>
    ELSE IF Len(lines) = 1 THEN lines[1]
    ELSE lines[1] \o <<NL>> \o JoinLines(Tail(lines))

RECURSIVE CollapseFrom(_, _, _)
CollapseFrom(s, i, gap) ==
    IF i > Len(s) THEN <<>>
    ELSE IF s[i] \in WHITESPACE THEN CollapseFrom(s, i + 1, TRUE)
    ELSE (IF gap THEN <<" ">> ELSE <<>>) \o <<s[i]>> \o CollapseFrom(s, i + 1, FALSE)

\* Python: " ".join(body.split()), for a body without leading whitespace
Collapse(s) == CollapseFrom(LStrip(s), 1, FALSE)

RECURSIVE TakeChars(_, _)
\* Python: s[:n]; a token is taken whole or not at all
TakeChars(s, n) ==
    IF s = <<>> \/ TokLen(Head(s)) > n THEN <<>>
    ELSE <<Head(s)>> \o TakeChars(Tail(s), n - TokLen(Head(s)))

\* lines 918-930: the snippet of one artifact
Snippet(f) ==
    IF ~CanRead(f) \/ ~Contains(f.text, <<NL, "---", NL>>) THEN <<>>
    ELSE LET body == Strip(LastPart(f.text, <<NL, "---", NL>>))
             lines == SplitLines(body)
             untitled == IF lines # <<>> /\ StartsWith(lines[1], <<"# ">>)
                         THEN Strip(JoinLines(Tail(lines)))
                         ELSE body
             clean_body == TakeChars(Collapse(untitled), SNIPPET_CHARS)
         IN IF clean_body # <<>> THEN clean_body \o <<"...">> ELSE <<>>

\* line 932: the line of one entry
EntryLine(dirfs, file) ==
    <<"- **">> \o file \o <<"**: ">> \o Snippet(FileAt(dirfs, MetaName(file)))

\* line 915: the marker written when the loop meets the cap
MoreMarkerOffByOne(total, count) ==
    <<NL, "... and ">> \o Str(total - count - 1) \o <<" more files.">>

MoreMarker(total, count) ==
    <<NL, "... and ">> \o Str(total - count) \o <<" more files.">>

RECURSIVE EntryLines(_, _, _)
\* lines 912-933: the loop over files_in_dir, count entries already listed
EntryLines(dirfs, files_in_dir, count) ==
    IF count >= Len(files_in_dir) THEN <<>>
    ELSE IF count >= MAX_DIR_SUMMARY_FILES
    THEN <<MoreMarker(Len(files_in_dir), count)>>
    ELSE <<EntryLine(dirfs, files_in_dir[count + 1])>>
         \o EntryLines(dirfs, files_in_dir, count + 1)

\* lines 908-942: the text of .dir.meta
dir_meta_content(dirfs, basename, files_in_dir, pid, timestamp) ==
    <<"--far_version: 1", NL, "type: directory", NL, "extract:", NL>>
    \o <<"  ", "pipeline: ">> \o pid \o <<NL>>
    \o <<"  ", "extracted_at: ">> \o timestamp \o <<NL>>
    \o <<"---", NL>>
    \o JoinLines(<< <<"# Directory: ", basename>>,
                    <<"Contains ">> \o Str(Len(files_in_dir))
                        \o <<" files processed by FAR.", NL>> >>
                 \o EntryLines(dirfs, files_in_dir, 0))
    \o <<NL>>

\* generate_dir_meta(dirpath, root_dir, ignore_patterns, files_in_dir)
generate_dir_meta(dirfs, d, ignore_patterns, files_in_dir, pid, now) ==
    IF should_ignore(DirRel(d), ignore_patterns)
    THEN [fs |-> dirfs, wrote |-> FALSE, raised |-> FALSE]
    ELSE IF ~CanWrite(dirfs[DIR_META])
    THEN [fs |-> dirfs, wrote |-> FALSE, raised |-> TRUE]
    ELSE [fs |-> [dirfs EXCEPT ![DIR_META] =
                     File(dir_meta_content(dirfs, d, files_in_dir, pid, IsoFormat(now)),
                          0, "rw")],
          wrote |-> TRUE, raised |-> FALSE]

(***************************************************************************)
(* State.                                                                  *)
(***************************************************************************)
VARIABLES
    fs,          \* the tree: directory -> file name -> file
    farignore,   \* the lines of the root's .farignore
    pipeline_id, \* PIPELINE_ID of the running revision
    now,         \* the clock, read once by every run
    since,       \* what the user did to the source since the latest call
    run,         \* what the latest call of generate_file_meta did
    walk,        \* the position of main's tree walk
    agg          \* the argument and the result of generate_dir_meta

vars == <<fs, farignore, pipeline_id, now, since, run, walk, agg>>

DIRS == {"root", "sub"}

A_TXT == <<"a", ".txt">>
B_TXT == <<"b", ".txt">>
\* a file of the user's whose name ends in .meta and has no source beside it
N_META == <<"n", ".meta">>

NAMES == {A_TXT, MetaName(A_TXT), MetaName(MetaName(A_TXT)),
          B_TXT, MetaName(B_TXT), N_META, DIR_META}

EmptyDir == [n \in NAMES |-> Absent]

\* mtimes 1.2 and 1.25
MTIMES == {120, 125}

TEXTS == {TextA, TextB, TextM, TextS, TextP}

NoRun == [n |-> 0, force |-> FALSE, path |-> "none", since |-> "nothing",
          prevPath |-> "none", kept |-> TRUE]

NoWalk == [pc |-> "idle"]
NoAgg == [pc |-> "idle"]

\* the work a call performed, by the way it took through generate_file_meta
Hashed(path) ==
    path \in {"nohash", "touch", "touch_cut", "extract", "extract_cut", "extract_raise", "raise"}
Extracted(path) == path \in {"extract", "extract_cut", "extract_raise", "raise"}
Wrote(path) == path \in {"touch", "touch_cut", "extract", "extract_cut"}
Returned(path) == path \in {"fast", "touch", "extract"}

(***************************************************************************)
(* Spec: one source file, a.txt in the root, and its artifact.  The        *)
(* environment rewrites, touches and deletes the source and moves to the   *)
(* next pipeline revision; the program is called on the file.              *)
(***************************************************************************)
Init ==
    /\ \E t \in TEXTS, m \in MTIMES :
          fs = [d \in DIRS |-> IF d = "root"
                               THEN [EmptyDir EXCEPT ![A_TXT] = File(t, m, "rw")]
                               ELSE EmptyDir]
    /\ farignore \in {<<>>, << <<"*", ".txt">> >>}
    /\ pipeline_id = OLD_PIPELINE_ID
    /\ now = 0
    /\ since = "nothing"
    /\ run = NoRun
    /\ walk = NoWalk
    /\ agg = NoAgg

\* since, after one more change of the given kind
Then(old, kind) ==
    IF old = "nothing" THEN kind
    ELSE IF old = "mtime" /\ kind = "mtime" THEN "mtime"
    ELSE IF old \in {"mtime", "content"} /\ kind \in {"mtime", "content"} THEN "content"
    ELSE "other"

\* the user writes the source: new content, a new mtime, or both
WriteSource(t, m) ==
    LET f == fs["root"][A_TXT]
    IN /\ f # File(t, m, "rw")
       /\ fs' = [fs EXCEPT !["root"][A_TXT] = File(t, m, "rw")]
       /\ since' = Then(since, IF f.kind = "absent" THEN "other"
                               ELSE IF f.text = t THEN "mtime" ELSE "content")
       /\ UNCHANGED <<farignore, pipeline_id, now, run, walk, agg>>

\* the user deletes the source
DeleteSource ==
    /\ fs["root"][A_TXT].kind = "file"
    /\ fs' = [fs EXCEPT !["root"][A_TXT] = Absent]
    /\ since' = "other"
    /\ UNCHANGED <<farignore, pipeline_id, now, run, walk, agg>>

\* the next revision of the program is installed
UpgradePipeline ==
    /\ pipeline_id = OLD_PIPELINE_ID
    /\ pipeline_id' = PIPELINE_ID
    /\ since' = "other"
    /\ UNCHANGED <<fs, farignore, now, run, walk, agg>>

\* the user adds the line *.txt to .farignore
AddIgnore ==
    /\ farignore = <<>>
    /\ farignore' = << <<"*", ".txt">> >>
    /\ since' = "other"
    /\ UNCHANGED <<fs, pipeline_id, now, run, walk, agg>>

\* one call generate_file_meta(a.txt, root, load_farignore(root), force)
RunFile(force) ==
    /\ now < MaxRuns
    /\ LET r == generate_file_meta(fs["root"], FileRel("root", A_TXT), A_TXT,
                                   load_farignore(farignore), pipeline_id, force, now + 1)
       IN /\ fs' = [fs EXCEPT !["root"] = r.fs]
          /\ run' = [n |-> run.n + 1, force |-> force, path |-> r.path, since |-> since,
                     prevPath |-> run.path,
                     kept |-> (r.fs = fs["root"])]
    /\ since' = "nothing"
    /\ now' = now + 1
    /\ UNCHANGED <<farignore, pipeline_id, walk, agg>>

Next ==
    \/ \E t \in TEXTS, m \in MTIMES : WriteSource(t, m)
    \/ DeleteSource
    \/ UpgradePipeline
    \/ AddIgnore
    \/ \E force \in BOOLEAN : RunFile(force)

Spec == Init /\ [][Next]_vars

(***************************************************************************)
(* SpecDir: generate_dir_meta on the list main built for one directory.    *)
(***************************************************************************)
\* entries in the list of processed files
MaxEntries == 52

\* the i-th processed file, f<i>.txt
EntryName(i) == <<"f">> \o Str(i) \o <<".txt">>

\* the artifact generate_file_meta wrote for the i-th file
EntryArtifact(i) ==
    File(meta_content(Digest(IF i % 2 = 1 THEN TextA ELSE TextB), "text/plain", 1, 120,
                      PIPELINE_ID, IsoFormat(0), <<>>, EntryName(i),
                      IF i % 2 = 1 THEN TextA ELSE TextB),
         0, "rw")

DirNames == NAMES \cup {EntryName(i) : i \in 1..MaxEntries}
                  \cup {MetaName(EntryName(i)) : i \in 1..MaxEntries}

InitDir ==
    /\ fs = [d \in DIRS |->
               IF d = "sub" THEN EmptyDir
               ELSE [n \in DirNames |->
                       IF \E i \in 1..MaxEntries : n = EntryName(i)
                       THEN File(TextA, 120, "rw")
                       ELSE IF \E i \in 1..MaxEntries : n = MetaName(EntryName(i))
                       THEN EntryArtifact(CHOOSE i \in 1..MaxEntries : n = MetaName(EntryName(i)))
                       ELSE Absent]]
    /\ farignore = <<>>
    /\ pipeline_id = PIPELINE_ID
    /\ now = 1
    /\ since = "nothing"
    /\ run = NoRun
    /\ walk = NoWalk
    /\ agg = [pc |-> "build", files |-> <<>>]

\* line 993: one more processed file joins the list
AddEntry ==
    /\ agg.pc = "build"
    /\ Len(agg.files) < MaxEntries
    /\ agg' = [agg EXCEPT !.files = Append(@, EntryName(Len(@) + 1))]
    /\ UNCHANGED <<fs, farignore, pipeline_id, now, since, run, walk>>

\* line 996: generate_dir_meta(root, target_path, ignore_patterns, processed_files)
Aggregate ==
    /\ agg.pc = "build"
    /\ agg.files # <<>>
    /\ LET r == generate_dir_meta(fs["root"], "root", load_farignore(farignore),
                                  agg.files, pipeline_id, now)
       IN fs' = [fs EXCEPT !["root"] = r.fs]
    /\ agg' = [agg EXCEPT !.pc = "done"]
    /\ UNCHANGED <<farignore, pipeline_id, now, since, run, walk>>

NextDir == AddEntry \/ Aggregate

SpecDir == InitDir /\ [][NextDir]_vars

(***************************************************************************)
(* SpecWalk: the tree walk of main over a root directory and one           *)
(* subdirectory.                                                           *)
(***************************************************************************)
\* os.walk(target_path) with topdown left at its default: the root first
WALK_ORDER_TopDown == <<"root", "sub">>

\* os.walk(target_path, topdown=False): the subdirectory, then the root
WALK_ORDER == <<"sub", "root">>

\* walks of the tree in one behaviour
MaxWalks == 2

\* the order in which the model lists a directory
LISTING == <<A_TXT, MetaName(A_TXT), MetaName(MetaName(A_TXT)), B_TXT, MetaName(B_TXT),
             N_META, DIR_META>>

\* os.walk's files of a directory: the names of its files, in listing order
Files(dirfs) == SelectSeq(LISTING, LAMBDA n : dirfs[n].kind = "file")

InSeq(x, q) == \E k \in 1..Len(q) : q[k] = x

\* line 976 without the exception for .dir.meta
IsArtifactNameAny(file) == EndsWithMeta(file)

\* line 976: file.endswith('.meta') and file != '.dir.meta'
IsArtifactName(file) == EndsWithMeta(file) /\ file # DIR_META

\* lines 976-978 with the test inverted: nothing is ever an orphan
IsOrphanNever(files, file) ==
    EndsWithMeta(file) /\ file # DIR_META /\ InSeq(StripMeta(file), files) /\ ~InSeq(file, files)

\* lines 976-978: an artifact name whose source is not in the listing
IsOrphan(files, file) ==
    IsArtifactName(file) /\ ~InSeq(StripMeta(file), files)

\* lines 975-984 without the test of line 978: every artifact name is removed
SweptAll(dirfs, files) ==
    [n \in DOMAIN dirfs |-> IF InSeq(n, files) /\ IsArtifactName(n) THEN Absent ELSE dirfs[n]]

\* lines 975-984: the directory after the sweep
Swept(dirfs, files) ==
    [n \in DOMAIN dirfs |-> IF InSeq(n, files) /\ IsOrphan(files, n) THEN Absent ELSE dirfs[n]]

\* the artifact an earlier walk of the running revision wrote for a text at mtime 1.2
ArtifactOf(name, text) ==
    File(meta_content(Digest(text), get_mime_type(name), CharLen(text), 120,
                      PIPELINE_ID, IsoFormat(0), <<>>, name, text), 0, "rw")

InitWalk ==
    /\ \E a \in {Absent, File(TextA, 120, "rw")},
          am \in {Absent, ArtifactOf(A_TXT, TextA)},
          amm \in {Absent, ArtifactOf(MetaName(A_TXT), TextB)},
          n \in {Absent, File(TextB, 120, "rw")} :
          fs = [d \in DIRS |->
                  IF d = "root"
                  THEN [EmptyDir EXCEPT ![A_TXT] = a, ![MetaName(A_TXT)] = am,
                                        ![MetaName(MetaName(A_TXT))] = amm,
                                        ![B_TXT] = File(TextB, 120, "rw"), ![N_META] = n]
                  ELSE [EmptyDir EXCEPT ![A_TXT] = File(TextA, 120, "rw")]]
    /\ farignore \in {<<>>, << <<"n", ".meta">> >>, << <<"sub", "/">> >>}
    /\ pipeline_id = PIPELINE_ID
    /\ now = 0
    /\ since = "nothing"
    /\ run = NoRun
    /\ walk = NoWalk
    /\ agg = NoAgg

Resting == walk.pc \in {"idle", "done", "crashed"}

\* between two walks the user deletes a source file
DeleteFile(d, name) ==
    /\ Resting
    /\ fs[d][name].kind = "file"
    /\ fs' = [fs EXCEPT ![d][name] = Absent]
    /\ walk' = NoWalk
    /\ UNCHANGED <<farignore, pipeline_id, now, since, run, agg>>

\* between two walks the user write-protects an artifact
LockFile(d, name) ==
    /\ Resting
    /\ fs[d][name].kind = "file"
    /\ fs[d][name].mode = "rw"
    /\ fs' = [fs EXCEPT ![d][name].mode = "ro"]
    /\ walk' = NoWalk
    /\ UNCHANGED <<farignore, pipeline_id, now, since, run, agg>>

\* between two walks the user takes the read permission of a source away
ProtectFile(d, name) ==
    /\ Resting
    /\ fs[d][name].kind = "file"
    /\ fs[d][name].mode = "rw"
    /\ fs' = [fs EXCEPT ![d][name].mode = "none"]
    /\ walk' = NoWalk
    /\ UNCHANGED <<farignore, pipeline_id, now, since, run, agg>>

\* lines 966-969: main starts the walk; os.walk lists the directories
StartWalk(force) ==
    /\ Resting
    /\ now < MaxWalks
    /\ now' = now + 1
    /\ walk' = [pc |-> "sweep", force |-> force, d |-> 1, i |-> 1,
                files |-> Files(fs[WALK_ORDER[1]]), processed |-> <<>>,
                called |-> {}, returned |-> {}, removed |-> {}, swept |-> {}, aggd |-> {}]
    /\ UNCHANGED <<fs, farignore, pipeline_id, since, run, agg>>

\* the walk moves on to the next directory, or ends
Advance(w, tree) ==
    IF w.d < Len(WALK_ORDER)
    THEN [w EXCEPT !.pc = "sweep", !.d = w.d + 1, !.i = 1, !.processed = <<>>,
                   !.files = Files(tree[WALK_ORDER[w.d + 1]])]
    ELSE [w EXCEPT !.pc = "done"]

\* lines 970-985: the directory is skipped when ignored, swept otherwise
Sweep ==
    /\ walk.pc = "sweep"
    /\ LET d == WALK_ORDER[walk.d]
       IN IF should_ignore(DirRel(d), load_farignore(farignore))
          THEN /\ walk' = Advance(walk, fs)
               /\ fs' = fs
          ELSE /\ fs' = [fs EXCEPT ![d] = Swept(fs[d], walk.files)]
               /\ walk' = [walk EXCEPT
                     !.pc = "files",
                     !.swept = @ \cup {d},
                     !.removed = @ \cup {<<d, n>> : n \in
                         {m \in DOMAIN fs[d] : InSeq(m, walk.files) /\ IsOrphan(walk.files, m)}}]
    /\ UNCHANGED <<farignore, pipeline_id, now, since, run, agg>>

\* line 988: if file.endswith('.meta') or file.startswith('.'): continue
Skips(file) == EndsWithMeta(file) \/ StartsWithDot(file)

\* lines 987-993: one iteration of the loop over the files
ProcessFile ==
    /\ walk.pc = "files"
    /\ walk.i <= Len(walk.files)
    /\ LET d == WALK_ORDER[walk.d]
           file == walk.files[walk.i]
           r == generate_file_meta(fs[d], FileRel(d, file), file, load_farignore(farignore),
                                   pipeline_id, walk.force, now)
       IN IF Skips(file)
          THEN /\ walk' = [walk EXCEPT !.i = @ + 1]
               /\ fs' = fs
          ELSE /\ fs' = [fs EXCEPT ![d] = r.fs]
               /\ walk' = [walk EXCEPT
                     !.pc = IF r.raised THEN "crashed" ELSE "files",
                     !.i = @ + 1,
                     !.called = @ \cup {<<d, file>>},
                     !.returned = IF r.ret THEN @ \cup {<<d, file>>} ELSE @,
                     !.processed = IF r.ret THEN Append(@, file) ELSE @]
    /\ UNCHANGED <<farignore, pipeline_id, now, since, run, agg>>

\* line 995 without the test
ShouldAggregateAlways(processed_files) == TRUE

\* line 995: if processed_files
ShouldAggregate(processed_files) == processed_files # <<>>

\* lines 995-996: the rollup of the directory, when a file was processed
AggregateDir ==
    /\ walk.pc = "files"
    /\ walk.i > Len(walk.files)
    /\ LET d == WALK_ORDER[walk.d]
           r == generate_dir_meta(fs[d], d, load_farignore(farignore), walk.processed,
                                  pipeline_id, now)
       IN IF ~ShouldAggregate(walk.processed)
          THEN /\ fs' = fs
               /\ walk' = Advance(walk, fs)
          ELSE /\ fs' = [fs EXCEPT ![d] = r.fs]
               /\ walk' = IF r.raised THEN [walk EXCEPT !.pc = "crashed"]
                          ELSE Advance([walk EXCEPT
                                   !.aggd = IF r.wrote THEN @ \cup {d} ELSE @], fs)
    /\ UNCHANGED <<farignore, pipeline_id, now, since, run, agg>>

NextWalk ==
    \/ \E d \in DIRS, name \in {A_TXT, B_TXT} : DeleteFile(d, name)
    \/ \E d \in DIRS, name \in {MetaName(A_TXT), DIR_META} : LockFile(d, name)
    \/ \E d \in DIRS, name \in {A_TXT} : ProtectFile(d, name)
    \/ \E force \in BOOLEAN : StartWalk(force)
    \/ Sweep
    \/ ProcessFile
    \/ AggregateDir

SpecWalk == InitWalk /\ [][NextWalk]_vars

(***************************************************************************)
(* SpecIgnore: the same walk under a .farignore of one line: ".", the      *)
(* relative path os.path.relpath gives the root itself (line 746), or      *)
(* "a.txt", the name of a source file.                                     *)
(***************************************************************************)
InitIgnore ==
    /\ \E a \in {Absent, File(TextA, 120, "rw")},
          am \in {Absent, ArtifactOf(A_TXT, TextA)},
          sa \in {Absent, File(TextA, 120, "rw")},
          sam \in {Absent, ArtifactOf(A_TXT, TextA)} :
          fs = [d \in DIRS |->
                  IF d = "root"
                  THEN [EmptyDir EXCEPT ![A_TXT] = a, ![MetaName(A_TXT)] = am,
                                        ![B_TXT] = File(TextB, 120, "rw")]
                  ELSE [EmptyDir EXCEPT ![A_TXT] = sa, ![MetaName(A_TXT)] = sam,
                                        ![B_TXT] = File(TextB, 120, "rw")]]
    /\ farignore \in {<< <<".">> >>, << A_TXT >>}
    /\ pipeline_id = PIPELINE_ID
    /\ now = 0
    /\ since = "nothing"
    /\ run = NoRun
    /\ walk = NoWalk
    /\ agg = NoAgg

SpecIgnore == InitIgnore /\ [][NextWalk]_vars

(***************************************************************************)
(* SpecCsv: extract_csv on a CSV file that grows row by row: a header of   *)
(* one or two columns, then data rows numbered from 0 as in test_csv_cap.  *)
(***************************************************************************)
\* data rows of the file
MaxRows == 102

D_CSV == <<"d", ".csv">>
CsvDirNames == NAMES \cup {D_CSV}

\* the i-th data row of the file, "i,2i" (with its line end)
CsvRow(i, cols) == IF cols = 1 THEN Str(i) \o <<NL>> ELSE Str(i) \o <<",">> \o Str(2 * i) \o <<NL>>

CsvFile == fs["root"][D_CSV]

InitCsv ==
    /\ \E cols \in {1, 2} :
          /\ fs = [d \in DIRS |->
                     IF d = "sub" THEN EmptyDir
                     ELSE [n \in CsvDirNames |->
                             IF n = D_CSV
                             THEN File(IF cols = 1 THEN <<"id", NL>> ELSE <<"id", ",", "val", NL>>,
                                       120, "rw")
                             ELSE Absent]]
          /\ agg = [pc |-> "csv", cols |-> cols, rows |-> 0, done |-> FALSE, out |-> <<>>]
    /\ farignore = <<>>
    /\ pipeline_id = PIPELINE_ID
    /\ now = 0
    /\ since = "nothing"
    /\ run = NoRun
    /\ walk = NoWalk

\* the user appends one data row to the file
AppendRow ==
    /\ agg.rows < MaxRows
    /\ fs' = [fs EXCEPT !["root"][D_CSV].text = @ \o CsvRow(agg.rows, agg.cols)]
    /\ agg' = [agg EXCEPT !.rows = @ + 1, !.done = FALSE, !.out = <<>>]
    /\ UNCHANGED <<farignore, pipeline_id, now, since, run, walk>>

\* line 852: extracted_text = extract_csv(filepath)
ExtractCsv ==
    /\ ~agg.done
    /\ agg' = [agg EXCEPT !.done = TRUE, !.out = extract_csv(CsvFile)]
    /\ UNCHANGED <<fs, farignore, pipeline_id, now, since, run, walk>>

NextCsv == AppendRow \/ ExtractCsv

SpecCsv == InitCsv /\ [][NextCsv]_vars

(***************************************************************************)
(* SpecSnip: the user writes a.txt token by token, generate_file_meta      *)
(* extracts it and generate_dir_meta lists it with its snippet.            *)
(***************************************************************************)
\* tokens of the body of a.txt
MaxBody == 3

\* what the user types: a letter, a line end, a rule, the start of a markdown
\* heading, a word of 64 characters
BODY_TOKENS == {"a", NL, "---", "# ", "hA"}

InitSnip ==
    /\ \E t \in BODY_TOKENS :
          fs = [d \in DIRS |->
                  IF d = "sub" THEN EmptyDir
                  ELSE [EmptyDir EXCEPT ![A_TXT] = File(<<t>>, 120, "rw")]]
    /\ farignore = <<>>
    /\ pipeline_id = PIPELINE_ID
    /\ now = 0
    /\ since = "nothing"
    /\ run = NoRun
    /\ walk = NoWalk
    /\ agg = [pc |-> "written", processed_files |-> <<>>]

\* the user types one more token
AppendToken(t) ==
    /\ agg.pc = "written"
    /\ Len(fs["root"][A_TXT].text) < MaxBody
    /\ fs' = [fs EXCEPT !["root"][A_TXT].text = Append(@, t)]
    /\ UNCHANGED <<farignore, pipeline_id, now, since, run, walk, agg>>

\* lines 990-993: meta_path = generate_file_meta(...); processed_files.append(...)
SnipFile ==
    /\ agg.pc = "written"
    /\ LET r == generate_file_meta(fs["root"], FileRel("root", A_TXT), A_TXT,
                                   load_farignore(farignore), pipeline_id, FALSE, now + 1)
       IN /\ fs' = [fs EXCEPT !["root"] = r.fs]
          /\ agg' = [pc |-> "extracted",
                     processed_files |-> IF r.ret THEN <<A_TXT>> ELSE <<>>]
    /\ now' = now + 1
    /\ UNCHANGED <<farignore, pipeline_id, since, run, walk>>

\* lines 995-996: generate_dir_meta(root, target_path, ignore_patterns, processed_files)
SnipDir ==
    /\ agg.pc = "extracted"
    /\ ShouldAggregate(agg.processed_files)
    /\ LET r == generate_dir_meta(fs["root"], "root", load_farignore(farignore),
                                  agg.processed_files, pipeline_id, now)
       IN fs' = [fs EXCEPT !["root"] = r.fs]
    /\ agg' = [agg EXCEPT !.pc = "listed"]
    /\ UNCHANGED <<farignore, pipeline_id, now, since, run, walk>>

NextSnip ==
    \/ \E t \in BODY_TOKENS : AppendToken(t)
    \/ SnipFile
    \/ SnipDir

SpecSnip == InitSnip /\ [][NextSnip]_vars

(***************************************************************************)
(* SpecFault: calls of generate_file_meta on one source file while things  *)
(* go wrong: the source vanishes or loses its read permission during the   *)
(* call, the external tool fails, the artifact on disk is damaged, the     *)
(* process is stopped while it writes.                                     *)
(***************************************************************************)
\* calls of generate_file_meta in one behaviour
MaxCalls == 2

P_PDF == <<"p", ".pdf">>
C_CSV == <<"c", ".csv">>

FaultNames == {A_TXT, P_PDF, C_CSV}
FaultDirNames == NAMES \cup FaultNames \cup {MetaName(n) : n \in FaultNames}

\* the moment of a call at which the source is lost: never, before os.stat,
\* between os.stat and get_sha256, between get_sha256 and the extraction
GONE == {"no", "stat", "hash", "read"}

\* the source as a call sees it at its three reads, when it is lost at `gone`
\* and `lost` is what is left of it
Views(f, gone, lost, tool, cut) ==
    World(IF gone = "stat" THEN lost ELSE f,
          IF gone \in {"stat", "hash"} THEN lost ELSE f,
          IF gone = "no" THEN f ELSE lost,
          tool, cut)

\* the worlds a call on the file f of the given name can meet: one thing goes
\* wrong at a time
Worlds(name, f) ==
    {Calm(f)}
    \cup {Views(f, gone, lost, "ok", "whole") :
             gone \in GONE \ {"no"}, lost \in {Absent, [f EXCEPT !.mode = "none"]}}
    \cup (IF Suffix(name) = ".pdf"
          THEN {Views(f, "no", f, tool, "whole") : tool \in {"missing", "failed", "garbled"}}
          ELSE {})
    \cup {Views(f, "no", f, "ok", cut) : cut \in {"empty", "header"}}

\* when the source of the world is lost
GoneAt(f, world) ==
    IF world.stat # f THEN "stat"
    ELSE IF world.hash # f THEN "hash"
    ELSE IF world.read # f THEN "read"
    ELSE "no"

FaultSrc == fs["root"][run.name]
FaultArt == fs["root"][MetaName(run.name)]

NoCall(name) ==
    [name |-> name, path |-> "none", kept |-> TRUE, gone |-> "no", tool |-> "ok",
     damage |-> "no", torn |-> FALSE, sawTorn |-> FALSE, atomic |-> TRUE]

InitFault ==
    /\ \E name \in FaultNames, hasArtifact \in BOOLEAN :
          LET dir == [n \in FaultDirNames |->
                        IF n = name THEN File(TextA, 120, "rw") ELSE Absent]
              made == generate_file_meta(dir, FileRel("root", name), name,
                                         load_farignore(<<>>), PIPELINE_ID, TRUE, 0).fs
          IN /\ fs = [d \in DIRS |-> IF d = "root"
                                     THEN (IF hasArtifact THEN made ELSE dir)
                                     ELSE EmptyDir]
             /\ run = NoCall(name)
    /\ farignore = <<>>
    /\ pipeline_id = PIPELINE_ID
    /\ now = 0
    /\ since = "nothing"
    /\ walk = NoWalk
    /\ agg = NoAgg

\* the user touches the source
TouchSource ==
    /\ FaultSrc.kind = "file"
    /\ FaultSrc.mtime = 120
    /\ fs' = [fs EXCEPT !["root"][run.name].mtime = 125]
    /\ since' = Then(since, "mtime")
    /\ UNCHANGED <<farignore, pipeline_id, now, run, walk, agg>>

\* the user puts a lost source back
RestoreSource(t) ==
    /\ ~Readable(FaultSrc)
    /\ fs' = [fs EXCEPT !["root"][run.name] = File(t, 120, "rw")]
    /\ since' = "other"
    /\ UNCHANGED <<farignore, pipeline_id, now, run, walk, agg>>

\* the lines of a text without those that hold the key
DropLine(content, key) ==
    LET kept == SelectSeq(SplitLines(content), LAMBDA l : ~StartsWith(l, <<"  ", key>>))
    IN JoinLines(kept) \o <<NL>>

\* a text up to the line "extract:", not included
UpToExtract(content) ==
    LET at == {i \in 1..Len(content) : content[i] = "extract:"}
    IN IF at = {} THEN content ELSE SubSeq(content, 1, (CHOOSE i \in at : TRUE) - 1)

\* an artifact text after damage of the given kind
Damaged(content, kind) ==
    CASE kind = "nosha" -> DropLine(content, "sha256: ")
      [] kind = "half" -> UpToExtract(content)
      [] kind = "bytes" -> UNDECODABLE
      [] OTHER -> <<>>

DAMAGE == {"nosha", "half", "bytes", "empty"}

\* something damages the artifact of a file: a line is lost, the file is cut,
\* overwritten with bytes that are not text, or emptied
DamageArtifact(kind) ==
    /\ FaultArt.kind = "file"
    /\ run.damage = "no"
    /\ ~run.torn
    /\ fs' = [fs EXCEPT !["root"][MetaName(run.name)].text = Damaged(@, kind)]
    /\ run' = [run EXCEPT !.damage = kind]
    /\ since' = "other"
    /\ UNCHANGED <<farignore, pipeline_id, now, walk, agg>>

\* one call generate_file_meta(file, root, load_farignore(root), force) in a world
CallFile(force, world) ==
    /\ now < MaxCalls
    /\ LET name == run.name
           r == generate_file_meta_in(fs["root"], FileRel("root", name), name,
                                      load_farignore(farignore), pipeline_id, force,
                                      now + 1, world)
           whole == generate_file_meta_in(fs["root"], FileRel("root", name), name,
                                          load_farignore(farignore), pipeline_id, force,
                                          now + 1, [world EXCEPT !.cut = "whole"])
           art == r.fs[MetaName(name)]
       IN /\ fs' = [fs EXCEPT !["root"] = [r.fs EXCEPT ![name] = world.read]]
          /\ run' = [name |-> name, path |-> r.path,
                     kept |-> (art = FaultArt),
                     gone |-> GoneAt(FaultSrc, world),
                     tool |-> world.tool,
                     damage |-> IF r.path \in {"extract", "extract_cut"} THEN "no"
                                ELSE run.damage,
                     torn |-> IF r.path \in {"touch_cut", "extract_cut"} THEN TRUE
                              ELSE IF r.path = "extract" THEN FALSE ELSE run.torn,
                     sawTorn |-> run.torn,
                     atomic |-> (art = FaultArt \/ art = whole.fs[MetaName(name)])]
    /\ since' = "nothing"
    /\ now' = now + 1
    /\ UNCHANGED <<farignore, pipeline_id, walk, agg>>

NextFault ==
    \/ TouchSource
    \/ \E t \in {TextA, TextB} : RestoreSource(t)
    \/ \E kind \in DAMAGE : DamageArtifact(kind)
    \/ \E force \in BOOLEAN : \E world \in Worlds(run.name, FaultSrc) : CallFile(force, world)

SpecFault == InitFault /\ [][NextFault]_vars

(***************************************************************************)
(* SpecRace: calls of generate_file_meta on a.txt while another actor      *)
(* rewrites the file: between os.stat and the hashing, or between the      *)
(* hashing and the extraction.  Between two calls the user edits the file. *)
(***************************************************************************)
\* calls in one behaviour
MaxRaces == 2

\* the versions of a.txt: two texts of the same size at two mtimes
RACE_FILES == {File(t, m, "rw") : t \in {TextA, TextB}, m \in MTIMES}

\* the worlds of a call that starts on the version f: nobody writes, or the
\* version g replaces f before the hashing, or before the extraction
RaceWorlds(f) ==
    {Calm(f)}
    \cup {World(f, g, g, "ok", "whole") : g \in RACE_FILES \ {f}}
    \cup {World(f, f, g, "ok", "whole") : g \in RACE_FILES \ {f}}

InitRace ==
    /\ fs = [d \in DIRS |->
               IF d = "sub" THEN EmptyDir
               ELSE [n \in FaultDirNames |->
                       IF n = A_TXT THEN File(TextA, 120, "rw") ELSE Absent]]
    /\ run = NoCall(A_TXT)
    /\ farignore = <<>>
    /\ pipeline_id = PIPELINE_ID
    /\ now = 0
    /\ since = "nothing"
    /\ walk = NoWalk
    /\ agg = [pc |-> "race", seen |-> Absent, views |-> {}]

\* between two calls the user saves another version of the file
EditSource(g) ==
    /\ g # FaultSrc
    /\ fs' = [fs EXCEPT !["root"][A_TXT] = g]
    /\ since' = "other"
    /\ UNCHANGED <<farignore, pipeline_id, now, run, walk, agg>>

\* one call of generate_file_meta during which the file may be rewritten
CallRace(force, world) ==
    /\ now < MaxRaces
    /\ LET r == generate_file_meta_in(fs["root"], FileRel("root", A_TXT), A_TXT,
                                      load_farignore(farignore), pipeline_id, force,
                                      now + 1, world)
       IN /\ fs' = [fs EXCEPT !["root"] = [r.fs EXCEPT ![A_TXT] = world.read]]
          /\ run' = [NoCall(A_TXT) EXCEPT !.path = r.path,
                                          !.kept = (r.fs[MetaName(A_TXT)] = FaultArt)]
    /\ agg' = [pc |-> "race", seen |-> world.stat,
               views |-> {world.stat, world.hash, world.read}]
    /\ since' = "nothing"
    /\ now' = now + 1
    /\ UNCHANGED <<farignore, pipeline_id, walk>>

NextRace ==
    \/ \E g \in RACE_FILES : EditSource(g)
    \/ \E force \in BOOLEAN : \E world \in RaceWorlds(FaultSrc) : CallRace(force, world)

SpecRace == InitRace /\ [][NextRace]_vars

(***************************************************************************)
(* Reading an artifact back, field by field, for the properties below.     *)
(***************************************************************************)
\* the value of the first line "  <key><value>" of the text
Field(content, key) ==
    LET ls == SelectSeq(SplitLines(content), LAMBDA l : StartsWith(l, <<"  ", key>>))
    IN IF ls = <<>> THEN <<>> ELSE SubSeq(ls[1], 3, Len(ls[1]))

\* the position of the first line "---"
DelimiterAt(content) ==
    CHOOSE i \in 1..Len(content) :
        /\ OccursAt(content, <<"---", NL>>, i)
        /\ (i = 1 \/ content[i - 1] = NL)
        /\ \A j \in 1..(i - 1) :
              ~(OccursAt(content, <<"---", NL>>, j) /\ (j = 1 \/ content[j - 1] = NL))

\* what follows the delimiter, the title line of the given name and the blank line
BodyOf(content, name) ==
    SubSeq(content, DelimiterAt(content) + 2 + (Len(name) + 2) + 1, Len(content) - 1)

SrcFile == fs["root"][A_TXT]
ArtFile == fs["root"][MetaName(A_TXT)]
Ignored == should_ignore(FileRel("root", A_TXT), load_farignore(farignore))

\* a step that is an unforced call of generate_file_meta on a.txt
UnforcedCall == now' = now + 1 /\ ~run'.force

(***************************************************************************)
(* C1. Idempotence: a call that follows a call which returned the artifact *)
(* path, with nothing done to the source or the program in between and     *)
(* force off, computes no hash, calls no extractor, writes nothing and     *)
(* leaves the artifact byte-identical.                                     *)
(***************************************************************************)
C1_SecondRunDoesNothing ==
    (run.path # "none" /\ ~run.force /\ run.since = "nothing" /\ Returned(run.prevPath))
        => (~Hashed(run.path) /\ ~Extracted(run.path) /\ ~Wrote(run.path) /\ run.kept)

(***************************************************************************)
(* C2. Pipeline migration: an unforced call on an existing, not ignored    *)
(* source whose artifact records another pipeline than the running one     *)
(* re-extracts and leaves an artifact that records the running pipeline.   *)
(***************************************************************************)
C2_PipelineMismatchReextracts ==
    [][(/\ UnforcedCall
        /\ SrcFile.kind = "file"
        /\ ArtFile.kind = "file"
        /\ ~Ignored
        /\ Field(ArtFile.text, "pipeline: ") # pipeline_id)
       => (/\ run'.path = "extract"
           /\ Field(ArtFile.text, "pipeline: ")' = pipeline_id)]_vars

(***************************************************************************)
(* C3. Change detection: after the content of a source with an artifact    *)
(* was rewritten (here: with an mtime other than the recorded one), the    *)
(* next call leaves an artifact whose body is the extraction of the new    *)
(* content and whose sha256 is the hash of the new content.                *)
(***************************************************************************)
C3_ModifiedContentIsReextracted ==
    [][(/\ now' = now + 1
        /\ since = "content"
        /\ SrcFile.kind = "file"
        /\ ArtFile.kind = "file"
        /\ ~Ignored
        /\ Field(ArtFile.text, "mtime: ") # FloatRepr(SrcFile.mtime))
       => (/\ BodyOf(ArtFile.text, A_TXT)' = SrcFile.text
           /\ Field(ArtFile.text, "sha256: ")' = <<Digest(SrcFile.text)>>)]_vars

(***************************************************************************)
(* C4. The touch fast path preserves the frame: when the artifact records  *)
(* the hash of the source and the running pipeline but another mtime, an   *)
(* unforced call leaves body, extracted_at, sha256, size, mime and         *)
(* pipeline of the artifact exactly as they were.                          *)
(***************************************************************************)
C4_TouchPreservesFrame ==
    [][(/\ UnforcedCall
        /\ SrcFile.kind = "file"
        /\ ArtFile.kind = "file"
        /\ ~Ignored
        /\ Field(ArtFile.text, "sha256: ") = <<Digest(SrcFile.text)>>
        /\ Field(ArtFile.text, "pipeline: ") = pipeline_id
        /\ Field(ArtFile.text, "mtime: ") # FloatRepr(SrcFile.mtime))
       => (/\ BodyOf(ArtFile.text, A_TXT)' = BodyOf(ArtFile.text, A_TXT)
           /\ \A key \in {"extracted_at: ", "sha256: ", "size: ", "mime: ", "pipeline: "} :
                 Field(ArtFile.text, key)' = Field(ArtFile.text, key))]_vars

(***************************************************************************)
(* C5. No extraction on a content-identical swap: when a call extracted    *)
(* the source and the source is then replaced by a copy with the same      *)
(* content and another mtime, the next unforced call returns the artifact  *)
(* path without calling an extractor.                                      *)
(***************************************************************************)
C5_NoExtractionOnSwap ==
    (run.prevPath = "extract" /\ run.since = "mtime" /\ ~run.force)
        => (Returned(run.path) /\ ~Extracted(run.path))

C5_Witness ==
    /\ run.prevPath = "extract"
    /\ run.since = "mtime"
    /\ ~run.force
    /\ run.path = "touch"
    /\ ~run.kept

(***************************************************************************)
(* C6. An ignored file gets no artifact: while .farignore holds *.txt, a   *)
(* call on a.txt, forced or not, returns None and neither creates nor      *)
(* changes a.txt.meta.                                                     *)
(***************************************************************************)
C6_IgnoredNoArtifact ==
    (run.path # "none" /\ since = "nothing" /\ farignore # <<>>)
        => (run.path = "ignored" /\ ~Returned(run.path) /\ run.kept)

C6_Witness ==
    /\ run.path = "ignored"
    /\ run.force
    /\ since = "nothing"
    /\ ArtFile.kind = "file"

(***************************************************************************)
(* C7.  Ignored files are exempt from the orphan sweep: during a tree      *)
(* walk no file that matches a configured ignore pattern is deleted by the *)
(* sweep, whatever its name and whatever else is in its directory.         *)
(***************************************************************************)
C7_IgnoredNeverSwept ==
    walk.pc # "idle" =>
        \A e \in walk.removed :
            ~should_ignore(FileRel(e[1], e[2]), load_farignore(farignore))

(***************************************************************************)
(* C8, as stated.  After a completed walk no per-file artifact is left in  *)
(* a visited directory without its source file.                            *)
(***************************************************************************)
IsFileArtifact(dirfs, n) ==
    dirfs[n].kind = "file" /\ EndsWithMeta(n) /\ n # DIR_META

SummaryLines == SplitLines(LastPart(fs["root"][DIR_META].text, <<NL, "---", NL>>))
ListedEntries == SelectSeq(SummaryLines, LAMBDA l : StartsWith(l, <<"- **">>))
Markers == SelectSeq(SummaryLines, LAMBDA l : StartsWith(l, <<"... and ">>))

C9_AggregationCap ==
    agg.pc = "done" =>
        LET total == Len(agg.files)
            listed == IF total > MAX_DIR_SUMMARY_FILES THEN MAX_DIR_SUMMARY_FILES ELSE total
        IN /\ Len(ListedEntries) = listed
           /\ \A i \in 1..listed :
                 StartsWith(ListedEntries[i], <<"- **">> \o agg.files[i] \o <<"**: ">>)
           /\ IF total > MAX_DIR_SUMMARY_FILES
              THEN /\ Markers = << <<"... and ">> \o Str(total - MAX_DIR_SUMMARY_FILES)
                                              \o <<" more files.">> >>
                   /\ SummaryLines[Len(SummaryLines)] = Markers[1]
              ELSE Markers = <<>>

C9_Witness ==
    /\ agg.pc = "done"
    /\ Len(agg.files) = MAX_DIR_SUMMARY_FILES + 1
    /\ Len(ListedEntries) = MAX_DIR_SUMMARY_FILES
    /\ Len(Markers) = 1

(***************************************************************************)
(* C10.  Sibling isolation: whatever fails while one file is processed,    *)
(* the walk is not aborted, and when it ends every other non-ignored,      *)
(* non-hidden, non-artifact file of the visited directories has been       *)
(* processed.                                                              *)
(***************************************************************************)
C10_SiblingIsolation ==
    /\ walk.pc # "crashed"
    /\ walk.pc = "done" =>
          \A d \in walk.swept : \A n \in DOMAIN fs[d] :
              (fs[d][n].kind = "file" /\ ~EndsWithMeta(n) /\ ~StartsWithDot(n))
                  => <<d, n>> \in walk.called

(***************************************************************************)
(* C11.  Unreadable or vanished source: when the source vanishes or loses  *)
(* its read permission at any point of a call (before os.stat, between     *)
(* os.stat and the hashing, between the hashing and the extraction),       *)
(* generate_file_meta returns no result, creates no artifact and leaves an *)
(* existing artifact as it was.                                            *)
(***************************************************************************)
C11_LostSourceLeavesNoTrace ==
    (run.path # "none" /\ run.gone # "no") => (~Returned(run.path) /\ run.kept)

(***************************************************************************)
(* C12.  A corrupt artifact is treated as absent: when the artifact cannot *)
(* be parsed into a complete header (a fingerprint field is missing, the   *)
(* file is cut, its bytes are not text), a call on a readable source       *)
(* raises nothing, re-extracts and leaves a complete well-formed artifact. *)
(***************************************************************************)
HEADER_KEYS == {"sha256: ", "mime: ", "size: ", "mtime: ", "pipeline: ", "extracted_at: "}

\* the text has every header field, the delimiter, the title and a closed body
WellFormed(content, name) ==
    /\ content # <<>>
    /\ content[1] = "--far_version: 1"
    /\ \A key \in HEADER_KEYS : Field(content, key) # <<>>
    /\ Contains(content, <<NL, "---", NL, "# ">> \o name \o <<NL, NL>>)
    /\ content[Len(content)] = NL

C12_DamagedArtifactIsRebuilt ==
    [][(/\ now' = now + 1
        /\ run.damage # "no"
        /\ Readable(FaultSrc)
        /\ run'.gone = "no"
        /\ run'.tool = "ok"
        /\ run'.path \notin {"touch_cut", "extract_cut"})
       => (run'.path = "extract" /\ WellFormed(FaultArt.text, run.name)')]_vars

(***************************************************************************)
(* C13.  The cheap fast path is taken only on true equality: an unforced   *)
(* call returns the existing artifact without hashing only if the size,    *)
(* the mtime and the pipeline version recorded in the artifact header are, *)
(* as whole field values, the current ones; in every other case the hash   *)
(* is computed.                                                            *)
(***************************************************************************)
C13_FastPathOnlyOnEquality ==
    (run.path = "fast" /\ since = "nothing") =>
        /\ Field(ArtFile.text, "size: ") = Str(CharLen(SrcFile.text))
        /\ Field(ArtFile.text, "mtime: ") = FloatRepr(SrcFile.mtime)
        /\ Field(ArtFile.text, "pipeline: ") = pipeline_id

(***************************************************************************)
(* C14.  Force overrides cache validity: a call with force=True on a       *)
(* non-ignored file that can be hashed re-extracts and rewrites the        *)
(* artifact, also when an artifact with matching size, mtime, hash and     *)
(* pipeline version exists; neither fast path is taken.                    *)
(***************************************************************************)
C14_ForceReextracts ==
    (run.path # "none" /\ run.force /\ since = "nothing"
        /\ SrcFile.kind = "file" /\ ~Ignored) =>
        /\ run.path = "extract"
        /\ ~run.kept
        /\ BodyOf(ArtFile.text, A_TXT) = SrcFile.text
        /\ Field(ArtFile.text, "sha256: ") = <<Digest(SrcFile.text)>>
        /\ Field(ArtFile.text, "extracted_at: ") = IsoFormat(now)

C14_Witness ==
    /\ run.force
    /\ run.path = "extract"
    /\ run.prevPath = "extract"
    /\ run.since = "nothing"
    /\ since = "nothing"
    /\ Field(ArtFile.text, "extracted_at: ") = IsoFormat(now)

(***************************************************************************)
(* C15.  Successful processing postcondition: for a non-ignored, readable  *)
(* source generate_file_meta returns meta_path, and on return the artifact *)
(* at that path records the running PIPELINE_ID, a sha256 field and        *)
(* "deterministic: true", and its body holds the extracted text of the     *)
(* source.                                                                 *)
(***************************************************************************)
C15_ReturnedArtifactIsCurrent ==
    (run.path # "none" /\ since = "nothing" /\ SrcFile.kind = "file" /\ ~Ignored) =>
        /\ Returned(run.path)
        /\ ArtFile.kind = "file"
        /\ Field(ArtFile.text, "pipeline: ") = pipeline_id
        /\ Field(ArtFile.text, "sha256: ") # <<>>
        /\ Contains(ArtFile.text, <<"  ", "deterministic: true", NL>>)
        /\ BodyOf(ArtFile.text, A_TXT) = SrcFile.text

(***************************************************************************)
(* C16.  No empty directory artifact: a walk writes the .dir.meta of a     *)
(* visited, non-ignored directory if and only if generate_file_meta        *)
(* returned an artifact for at least one file of that directory in this    *)
(* walk.  The "if" half is stated for the directories whose visit the walk  *)
(* has finished.                                                            *)
(***************************************************************************)
\* the directories os.walk has yielded and whose loop body has run to its end
Finished ==
    IF walk.pc = "done" THEN {WALK_ORDER[k] : k \in 1..Len(WALK_ORDER)}
    ELSE {WALK_ORDER[k] : k \in 1..(walk.d - 1)}

\* line 993: processed_files of d got an entry in this walk
HasProcessed(d) == \E e \in walk.returned : e[1] = d

Below(d) == IF d = "root" THEN {"sub"} ELSE {}

\* the directory the walk is in
Current == WALK_ORDER[walk.d]

InWalk(w) == w.pc \in {"sweep", "files", "done", "crashed"}

C17_ChildrenFirst ==
    walk.pc \in {"sweep", "files"} => Below(Current) \subseteq Finished

C17_StepsInOrder ==
    /\ InWalk(walk) /\ InWalk(walk')
    /\ now' = now
    => /\ \A d \in DIRS, n \in NAMES :
             (d \in walk.aggd /\ EndsWithMeta(n) /\ n # DIR_META) => fs'[d][n] = fs[d][n]
       /\ \A d \in DIRS :
             (walk'.removed # walk.removed /\ d = Current) =>
                 ~\E e \in walk.called : e[1] = d
       /\ \A d \in DIRS :
             (d \in walk'.aggd /\ d \notin walk.aggd) =>
                 /\ d = Current
                 /\ walk.i > Len(walk.files)
                 /\ \E e \in walk.called : e[1] = d

C17_PostOrder == []C17_ChildrenFirst /\ [][C17_StepsInOrder]_vars

C17_Witness ==
    /\ walk.pc = "files"
    /\ Current = "root"
    /\ walk.i > 1
    /\ walk.aggd = {"sub"}
    /\ \E e \in walk.removed : e[1] = "root"
    /\ \E e \in walk.returned : e[1] = "root"

(***************************************************************************)
(* C18.  Extractor failure degrades to an error marker: when the external  *)
(* tool of the selected extractor fails in any way during a call that      *)
(* reaches the extraction, generate_file_meta raises nothing and writes an *)
(* artifact whose body starts with an inline error marker.                 *)
(***************************************************************************)
\* the first token of the markers the extractors return
ERROR_MARKERS == {"[Error: pdftotext not installed]", "[Error: ", "[Error extracting CSV: ",
                  "[Read Error]"}

C18_ExtractorFailureIsMarked ==
    (Extracted(run.path) /\ run.tool # "ok") =>
        /\ run.path = "extract"
        /\ FaultArt.kind = "file"
        /\ BodyOf(FaultArt.text, run.name) # <<>>
        /\ BodyOf(FaultArt.text, run.name)[1] \in ERROR_MARKERS

(***************************************************************************)
(* C19.  Atomic persistence: when a call is interrupted while it writes    *)
(* the artifact, the artifact on disk is the complete previous one or the  *)
(* complete new one, and no later unforced call takes the fast path on an  *)
(* artifact that an interrupted write left behind.                         *)
(***************************************************************************)
C19_AtomicPersistence ==
    run.path # "none" =>
        /\ run.atomic
        /\ ~(run.path = "fast" /\ run.sawTorn)

(***************************************************************************)
(* C20.  Ignored directories are skipped entirely: in a directory that     *)
(* matches an ignore rule, and in every directory below it, a walk sweeps  *)
(* nothing and deletes no orphan artifact, passes no file to               *)
(* generate_file_meta (so that no per-file artifact is created or          *)
(* modified) and writes no .dir.meta.                                      *)
(***************************************************************************)
\* the tree: the directories d is below
Above(d) == {a \in DIRS : d \in Below(a)}

\* d matches an ignore rule, or a directory above it does
InIgnoredTree(d) ==
    \E a \in {d} \cup Above(d) : should_ignore(DirRel(a), load_farignore(farignore))

C20_IgnoredTreeUntouched ==
    walk.pc # "idle" =>
        \A d \in DIRS :
            InIgnoredTree(d) =>
                /\ d \notin walk.swept
                /\ d \notin walk.aggd
                /\ ~\E e \in walk.removed \cup walk.called : e[1] = d

(***************************************************************************)
(* C21.  CSV row cap: for a CSV with a header row and n data rows,         *)
(* extract_csv renders the header, the rule and the first min(n, 100) data *)
(* rows in file order, and appends the trailer "(n rows total, showing     *)
(* first 100)" if and only if n > 100.                                     *)
(***************************************************************************)
\* the rendering of the i-th data row of the file
RenderedRow(i, cols) ==
    IF cols = 1 THEN <<"| ">> \o Str(i) \o <<" |">>
    ELSE <<"| ">> \o Str(i) \o <<" | ">> \o Str(2 * i) \o <<" |">>

Min(a, b) == IF a < b THEN a ELSE b

C21_CsvRowCap ==
    (agg.pc = "csv" /\ agg.done) =>
        LET lines == SplitLines(agg.out)
            n == agg.rows
            shown == Min(n, 100)
        IN /\ Len(lines) = 2 + shown + (IF n > 100 THEN 2 ELSE 0)
           /\ \A k \in 1..shown : lines[2 + k] = RenderedRow(k - 1, agg.cols)
           /\ n > 100 =>
                 /\ lines[Len(lines) - 1] = <<>>
                 /\ lines[Len(lines)] = <<"*(">> \o Str(n) \o <<" rows total, showing first 100)*">>
           /\ Contains(agg.out, <<" rows total, showing first 100)*">>) <=> n > 100

C21_Witness ==
    /\ agg.pc = "csv"
    /\ agg.done
    /\ agg.rows = 101
    /\ Len(SplitLines(agg.out)) = 104
    /\ Contains(agg.out, <<"*(", "1", "0", "1", " rows total, showing first 100)*">>)

(***************************************************************************)
(* C22.  Ellipsis only on truncation: the snippet of an entry of .dir.meta *)
(* ends with "..." if and only if the whitespace-collapsed body of the     *)
(* artifact was longer than 150 characters and was cut.                    *)
(***************************************************************************)
\* the snippet .dir.meta lists for the file: what follows "- **<file>**: "
SnippetOf(content, file) ==
    LET lines == SplitLines(content)
        entry == CHOOSE k \in 1..Len(lines) : StartsWith(lines[k], <<"- **">> \o file \o <<"**: ">>)
    IN SubSeq(lines[entry], Len(file) + 3, Len(lines[entry]))

EndsWithEllipsis(snippet) == snippet # <<>> /\ snippet[Len(snippet)] = "..."

\* the whitespace-collapsed body generate_file_meta stored for a.txt
StoredBody == Collapse(Strip(fs["root"][A_TXT].text))

C22_EllipsisOnlyOnTruncation ==
    agg.pc = "listed" =>
        (EndsWithEllipsis(SnippetOf(fs["root"][DIR_META].text, A_TXT))
            <=> CharLen(StoredBody) > SNIPPET_CHARS)

(***************************************************************************)
(* C23.  The snippet is taken from the start of the stored body: for an    *)
(* artifact written by generate_file_meta, the snippet listed in .dir.meta *)
(* is, up to the ellipsis, the first 150 characters of the whitespace-     *)
(* collapsed extracted body, whatever lines the body holds.                *)
(***************************************************************************)
WithoutEllipsis(snippet) ==
    IF EndsWithEllipsis(snippet) THEN SubSeq(snippet, 1, Len(snippet) - 1) ELSE snippet

C23_SnippetFromBodyStart ==
    agg.pc = "listed" =>
        WithoutEllipsis(SnippetOf(fs["root"][DIR_META].text, A_TXT))
            = TakeChars(StoredBody, SNIPPET_CHARS)

(***************************************************************************)
(* C24.  The DirectoryArtifact is outside the cache's inputs: in every     *)
(* walk the file .dir.meta is never deleted by the sweep, is never passed  *)
(* to generate_file_meta, never gets a per-file artifact of its own and is *)
(* never an entry of a .dir.meta.                                          *)
(***************************************************************************)
C24_DirMetaIsNoInput ==
    walk.pc # "idle" =>
        \A d \in DIRS :
            /\ <<d, DIR_META>> \notin walk.removed
            /\ <<d, DIR_META>> \notin walk.called
            /\ FileAt(fs[d], MetaName(DIR_META)).kind = "absent"
            /\ fs[d][DIR_META].kind = "file" =>
                  ~Contains(fs[d][DIR_META].text, <<"- **">> \o DIR_META)

C24_DirMetaStays ==
    (InWalk(walk) /\ InWalk(walk') /\ now' = now) =>
        \A d \in DIRS : fs[d][DIR_META].kind = "file" => fs'[d][DIR_META].kind = "file"

C24_DirMetaOutsideInputs == []C24_DirMetaIsNoInput /\ [][C24_DirMetaStays]_vars

C24_Witness ==
    /\ walk.pc = "done"
    /\ now = 2
    /\ InSeq(DIR_META, walk.files)
    /\ walk.removed # {}
    /\ walk.aggd = {"sub", "root"}
    /\ \A d \in DIRS : fs[d][DIR_META].kind = "file"

(***************************************************************************)
(* C25.  The sweep deletes only orphans: no step of a walk removes a file  *)
(* other than a per-file artifact whose source (the name without ".meta")  *)
(* is absent from the directory; an artifact whose source is present       *)
(* stays, also when the source is ignored, and so does, in a later walk,   *)
(* the artifact generate_file_meta wrote for a source that still exists.   *)
(***************************************************************************)
C25_SweepDeletesOnlyOrphans ==
    [][(InWalk(walk') /\ now' = now) =>
         \A d \in DIRS : \A n \in DOMAIN fs[d] :
             /\ (fs[d][n].kind = "file" /\ fs'[d][n].kind = "absent") =>
                   (EndsWithMeta(n) /\ FileAt(fs[d], StripMeta(n)).kind = "absent")
             /\ (fs[d][n].kind = "file" /\ FileAt(fs[d], MetaName(n)).kind = "file") =>
                   fs'[d][MetaName(n)].kind = "file"]_vars

C25_Witness ==
    /\ walk.pc = "done"
    /\ now = 2
    /\ walk.removed # {}
    /\ should_ignore(FileRel("root", A_TXT), load_farignore(farignore))
    /\ fs["root"][A_TXT].kind = "file"
    /\ fs["root"][MetaName(A_TXT)].kind = "file"
    /\ fs["root"][B_TXT].kind = "file"
    /\ fs["root"][MetaName(B_TXT)].kind = "file"
    /\ "root" \in walk.swept

(***************************************************************************)
(* C26.  Writes are confined to the cache's own artifacts: no step of a    *)
(* walk deletes or overwrites a file of the user, that is a source file or *)
(* the user's own file n.meta, which no run of the program created.        *)
(***************************************************************************)
\* the names of the files the user made: the sources, and the note n.meta
IsUserFile(n) == ~EndsWithMeta(n) \/ n = N_META

C26_UserFilesUntouched ==
    [][(InWalk(walk') /\ now' = now) =>
         \A d \in DIRS : \A n \in DOMAIN fs[d] :
             (IsUserFile(n) /\ fs[d][n].kind = "file") => fs'[d][n] = fs[d][n]]_vars

(***************************************************************************)
(* C27.  One-step convergence after a touch: an unforced call that takes   *)
(* the touch path leaves an artifact that records the current size, mtime  *)
(* and pipeline, and the next unforced call on the unchanged file takes    *)
(* the fast path and writes nothing: never the touch path twice in a row.  *)
(***************************************************************************)
C27_TouchRecordsCurrent ==
    (run.path = "touch" /\ since = "nothing") =>
        /\ Field(ArtFile.text, "size: ") = Str(CharLen(SrcFile.text))
        /\ Field(ArtFile.text, "mtime: ") = FloatRepr(SrcFile.mtime)
        /\ Field(ArtFile.text, "pipeline: ") = pipeline_id

C27_FastAfterTouch ==
    (run.prevPath = "touch" /\ run.since = "nothing" /\ ~run.force /\ run.path # "none") =>
        (run.path = "fast" /\ run.kept)

C27_TouchConverges == C27_TouchRecordsCurrent /\ C27_FastAfterTouch

(***************************************************************************)
(* C28.  No stale directory artifact: after a completed walk every         *)
(* .dir.meta in a visited, non-ignored directory was written in that walk, *)
(* and its count and its entries are the files of the directory processed  *)
(* in that walk.                                                           *)
(***************************************************************************)
\* the files of d for which generate_file_meta returned a path in this walk
ProcessedIn(d) == {n \in NAMES : <<d, n>> \in walk.returned}

C28_NoStaleDirArtifact ==
    walk.pc = "done" =>
        \A d \in walk.swept :
            fs[d][DIR_META].kind = "file" =>
                /\ d \in walk.aggd
                /\ Contains(fs[d][DIR_META].text,
                            <<"Contains ">> \o Str(Cardinality(ProcessedIn(d)))
                                \o <<" files processed by FAR.">>)
                /\ \A n \in NAMES :
                      Contains(fs[d][DIR_META].text, <<"- **">> \o n \o <<"**: ">>)
                          <=> n \in ProcessedIn(d)

(***************************************************************************)
(* C29.  Fingerprint and body describe the same content: after a full      *)
(* re-extraction the size, mtime and sha256 of the header and the body all *)
(* come from one version of the source, also when another actor rewrites   *)
(* the file during the call; and an unforced call takes the fast path only *)
(* on an artifact whose body is the extraction of the file as the call     *)
(* found it.                                                               *)
(***************************************************************************)
\* the artifact of a.txt is the extraction of the version v
DescribesVersion(content, v) ==
    /\ Field(content, "size: ") = Str(CharLen(v.text))
    /\ Field(content, "mtime: ") = FloatRepr(v.mtime)
    /\ Field(content, "sha256: ") = <<Digest(v.text)>>
    /\ BodyOf(content, A_TXT) = v.text

C29_OneVersion ==
    (agg.pc = "race" /\ run.path = "extract" /\ since = "nothing") =>
        \E v \in agg.views : DescribesVersion(FaultArt.text, v)

C29_ValidBodyIsCurrent ==
    (agg.pc = "race" /\ run.path = "fast" /\ since = "nothing") =>
        BodyOf(FaultArt.text, A_TXT) = agg.seen.text

C29_FingerprintMatchesBody == C29_OneVersion /\ C29_ValidBodyIsCurrent

====
